---- MODULE Spec2Model ----
(***************************************************************************)
(* The customization-request relay: server.js (OAuth install flow, token   *)
(* file, app-proxy endpoint) and the earlier single-endpoint server that   *)
(* reads a fixed ADMIN_TOKEN.  Each Express handler runs synchronously up  *)
(* to its next `await`; one action of the model is one such synchronous    *)
(* run.  Handlers suspended at an await sit in `handlers`.                 *)
(***************************************************************************)
EXTENDS Integers, Sequences, FiniteSets, Bags, TLC

\* ---- bounds of the model ------------------------------------------------
MaxHandlers == 2      \* handlers of server.js suspended at an await at once

\* ---- JavaScript values --------------------------------------------------
Undefined == "undefined"
Null == "null"

\* !v for the values the handlers test: undefined, null and "" are falsy.
Falsy(v) == v \in {Undefined, Null, ""}

\* obj.key on an object modelled as a function from its own keys.
Prop(obj, key) == IF key \in DOMAIN obj THEN obj[key] ELSE Undefined

\* ---- strings that are hashed or compared byte by byte --------------------
\* A string that goes through HMAC is a sequence of tokens; a hex digest is a
\* sequence of hex digits.
DigestLen == 64
HexBase == 16

\* Order of Array.prototype.sort() on the query keys used here.
KeyRank == [code |-> 1, hmac |-> 2, shop |-> 3, signature |-> 4]

RECURSIVE SortKeys(_)
SortKeys(keys) ==
  IF keys = {} THEN <<>>
  ELSE LET k == CHOOSE x \in keys : \A y \in keys : KeyRank[x] <= KeyRank[y]
       IN <<k>> \o SortKeys(keys \ {k})

RECURSIVE Join(_, _)
\* parts.join(sep): sep is a token sequence (<<>> for "").
Join(parts, sep) ==
  IF parts = <<>> THEN <<>>
  ELSE IF Len(parts) = 1 THEN Head(parts)
  ELSE Head(parts) \o sep \o Join(Tail(parts), sep)

\* `${key}=${value}`
KeyValue(obj, key) == <<key, "=", obj[key]>>

TokenCode ==
  [code |-> 1, shop |-> 2, s1 |-> 3, s2 |-> 4, c1 |-> 5] @@ ("=" :> 6) @@ ("&" :> 7)
SecretCode == [secret |-> 1, other |-> 2]

RECURSIVE MessageNumber(_)
MessageNumber(message) ==
  IF message = <<>> THEN 0
  ELSE TokenCode[Head(message)] + 8 * MessageNumber(Tail(message))

RECURSIVE Power(_, _)
Power(b, e) == IF e = 0 THEN 1 ELSE b * Power(b, e - 1)

\* The i-th hex digit (from the right) of n, n below 2^31.
HexDigit(n, i) == IF i > 7 THEN 0 ELSE (n \div Power(HexBase, i - 1)) % HexBase

\* crypto.createHmac("sha256", secret).update(message).digest("hex"): a keyed
\* digest of fixed length, different for different (secret, message).
HmacSha256Hex(secret, message) ==
  LET n == SecretCode[secret] + 3 * MessageNumber(message)
  IN [i \in 1..DigestLen |-> HexDigit(n, i)]

\* Buffer.from(s, "utf8").length for the hex and ASCII strings used here.
ByteLength(s) == Len(s)

\* crypto.timingSafeEqual(a, b): throws RangeError when the byte lengths differ.
timingSafeEqual(a, b) ==
  IF ByteLength(a) # ByteLength(b) THEN "throw"
  ELSE IF a = b THEN "true" ELSE "false"

\* verifyHmac(query, secret): "true", "false", or "throw" (exception).
verifyHmac(query, secret) ==
  LET hmac == IF "hmac" \in DOMAIN query THEN query.hmac ELSE <<>>
      rest == DOMAIN query \ {"hmac"}
      sorted == SortKeys(rest)
      message == Join([i \in 1..Len(sorted) |-> KeyValue(query, sorted[i])], <<"&">>)
      digest == HmacSha256Hex(secret, message)
  IN IF hmac = <<>> THEN "false"
     ELSE timingSafeEqual(digest, hmac)

\* verifyAppProxy(req, secret): createHmac throws a TypeError when the key
\* (API_SECRET) is undefined; that happens only after the signature test.
verifyAppProxy(query, secret) ==
  LET signature == IF "signature" \in DOMAIN query THEN query.signature ELSE <<>>
      q == DOMAIN query \ {"signature"}
      sorted == SortKeys(q)
      message == Join([i \in 1..Len(sorted) |-> KeyValue(query, sorted[i])], <<>>)
  IN IF signature = <<>> THEN "false"
     ELSE IF secret = Undefined THEN "throw"
     ELSE IF HmacSha256Hex(secret, message) = signature THEN "true" ELSE "false"

\* ---- state --------------------------------------------------------------
VARIABLES
  server,      \* which of the two server files is deployed
  env,         \* process.env as read at start-up
  dataDir,     \* whether the .data directory exists
  tokenFile,   \* .data/token.json: [exists, json]
  handlers,    \* bag of handlers suspended at an await
  lastDone,    \* the request that completed last, with what it sent
  lastSaved,   \* the argument of the last saveToken call (history)
  savedPairs   \* every (shop, access_token) pair ever saved together (history)

vars == <<server, env, dataDir, tokenFile, handlers, lastDone, lastSaved, savedPairs>>

EmptyObject == [k \in {} |-> Undefined]
NoFile == [exists |-> FALSE, json |-> <<>>]
NoBody == [phone |-> Undefined, product |-> Undefined, title |-> Undefined, url |-> Undefined,
           customer |-> Undefined, logged_in |-> FALSE, email |-> Undefined]
NoPlatform == [ok |-> FALSE, json |-> Undefined, data |-> Undefined, draftOrderCreate |-> Undefined,
               draftOrder |-> Undefined, userErrors |-> <<>>]
NoRequest == [route |-> "none", query |-> EmptyObject, body |-> NoBody, sent |-> <<>>,
              exchanges |-> 0, calls |-> <<>>, platform |-> NoPlatform]
NoTokenObj == [shop |-> Undefined, access_token |-> Undefined, scope |-> Undefined,
               created_at |-> Undefined]

\* ---- token storage ------------------------------------------------------
\* Insertion order of the keys of the object handed to saveToken.
TokenKeys == <<"shop", "access_token", "scope", "created_at">>

RECURSIVE Members(_, _)
\* JSON.stringify(obj): the members "key": value in insertion order; a key
\* whose value is undefined is left out.
Members(obj, keys) ==
  IF keys = <<>> THEN <<>>
  ELSE (IF obj[Head(keys)] = Undefined THEN <<>> ELSE << <<Head(keys), obj[Head(keys)]>> >>)
       \o Members(obj, Tail(keys))

JSONStringify(obj) == Members(obj, TokenKeys)

\* JSON.parse(text): the object with the members of the document.
JSONParse(text) ==
  [k \in {text[i][1] : i \in DOMAIN text} |->
     LET i == CHOOSE j \in DOMAIN text : text[j][1] = k /\ \A l \in DOMAIN text : text[l][1] = k => l <= j
     IN text[i][2]]

\* saveToken writing with appendFileSync: the file keeps what it held.
saveToken_Append(file, tokenObj) ==
  [exists |-> TRUE, json |-> file.json \o JSONStringify(tokenObj)]

\* saveToken(tokenObj): the contents of token.json after the call; the file is
\* written whole by one synchronous writeFileSync.
saveToken(file, tokenObj) == [exists |-> TRUE, json |-> JSONStringify(tokenObj)]

\* loadToken(): [isNull, obj].
loadToken(file) ==
  IF ~file.exists THEN [isNull |-> TRUE, obj |-> EmptyObject]
  ELSE [isNull |-> FALSE, obj |-> JSONParse(file.json)]

\* tok?.key
TokProp(tok, key) == IF tok.isNull THEN Undefined ELSE Prop(tok.obj, key)

\* ---- responses ----------------------------------------------------------
Response(status, text) == [status |-> status, text |-> text, ok |-> FALSE, draft_name |-> Undefined]
OkResponse(draft_name) == [status |-> 200, text |-> "", ok |-> TRUE, draft_name |-> draft_name]

\* A request that has run to its end: what it was, what it sent.
Done(route, query, body, sent, exchanges, calls, platform) ==
  [route |-> route, query |-> query, body |-> body, sent |-> sent,
   exchanges |-> exchanges, calls |-> calls, platform |-> platform]

Suspended(route, pc, query, body, exchanges, calls, ok) ==
  [route |-> route, pc |-> pc, query |-> query, body |-> body,
   exchanges |-> exchanges, calls |-> calls, ok |-> ok]

InFlight == BagCardinality(handlers)

Finish(h, sent, platform) ==
  /\ handlers' = handlers (-) SetToBag({h})
  /\ lastDone' = Done(h.route, h.query, h.body, sent, h.exchanges, h.calls, platform)

\* ---- GET / and GET /auth -------------------------------------------------
Root ==
  /\ lastDone' = Done("root", EmptyObject, NoBody, <<Response(200, "OK")>>, 0, <<>>, NoPlatform)
  /\ UNCHANGED <<server, env, dataDir, tokenFile, handlers, lastSaved, savedPairs>>

\* GET /auth discarding the stored token before a new install.
Auth_DropsToken(query) ==
  /\ server = "server.js"
  /\ tokenFile' = NoFile
  /\ lastDone' = Done("auth", query, NoBody, <<Response(302, "redirect")>>, 0, <<>>, NoPlatform)
  /\ UNCHANGED <<server, env, dataDir, handlers, lastSaved, savedPairs>>

Auth(query) ==
  /\ server = "server.js"
  /\ LET shop == IF Falsy(Prop(query, "shop")) THEN env.SHOP ELSE query["shop"]
         res == IF Falsy(env.SHOP) \/ Falsy(env.API_KEY) \/ Falsy(env.HOST)
                THEN Response(500, "Missing SHOP / SHOPIFY_API_KEY / HOST env vars")
                ELSE Response(302, shop)
     IN lastDone' = Done("auth", query, NoBody, <<res>>, 0, <<>>, NoPlatform)
  /\ UNCHANGED <<server, env, dataDir, tokenFile, handlers, lastSaved, savedPairs>>

\* ---- GET /auth/callback --------------------------------------------------
\* The handler up to `await fetch(...)`: the checks of lines 105-115.
CallbackChecks(query) ==
  IF Falsy(env.API_SECRET) \/ Falsy(env.API_KEY) \/ Falsy(env.HOST) \/ Falsy(env.SHOP)
  THEN Response(500, "Missing env vars for OAuth")
  ELSE LET v == verifyHmac(query, env.API_SECRET)
       IN IF v = "throw" THEN Response(500, "Server error")
          ELSE IF v = "false" THEN Response(400, "HMAC verification failed")
          ELSE IF Falsy(Prop(query, "shop")) \/ Falsy(Prop(query, "code"))
          THEN Response(400, "Missing shop or code")
          ELSE Response(0, "await fetch")

CallbackStart(query) ==
  /\ server = "server.js"
  /\ LET res == CallbackChecks(query)
     IN IF res.status # 0
        THEN /\ lastDone' = Done("callback", query, NoBody, <<res>>, 0, <<>>, NoPlatform)
             /\ UNCHANGED handlers
        ELSE /\ InFlight < MaxHandlers
             /\ handlers' = handlers (+)
                  SetToBag({Suspended("callback", "fetch", query, NoBody, 1, <<>>, FALSE)})
             /\ UNCHANGED lastDone
  /\ UNCHANGED <<server, env, dataDir, tokenFile, lastSaved, savedPairs>>

\* `await fetch(...)` settles: rejected (network failure) or a response whose
\* status is ok or not.
CallbackFetchSettled(h, outcome) ==
  /\ BagIn(h, handlers) /\ h.route = "callback" /\ h.pc = "fetch"
  /\ IF outcome = "reject"
     THEN Finish(h, <<Response(500, "Server error")>>, NoPlatform)
     ELSE /\ handlers' = (handlers (-) SetToBag({h})) (+)
                 SetToBag({[h EXCEPT !.pc = "json", !.ok = (outcome = "ok")]})
          /\ UNCHANGED lastDone
  /\ UNCHANGED <<server, env, dataDir, tokenFile, lastSaved, savedPairs>>

\* The object handed to saveToken (lines 133-138).
TokenObj(shop, tokenJson, now) ==
  [shop |-> shop,
   access_token |-> Prop(tokenJson.value, "access_token"),
   scope |-> Prop(tokenJson.value, "scope"),
   created_at |-> now]

\* The handler saving the token before it looks at tokenResp.ok.
CallbackJsonSettled_SaveBeforeOk(h, tokenJson, now) ==
  /\ BagIn(h, handlers) /\ h.route = "callback" /\ h.pc = "json"
  /\ IF tokenJson.kind # "object"
     THEN /\ Finish(h, <<Response(500, "Server error")>>, NoPlatform)
          /\ UNCHANGED <<dataDir, tokenFile, lastSaved, savedPairs>>
     ELSE LET tokenObj == TokenObj(h.query["shop"], tokenJson, now)
          IN /\ dataDir' = TRUE
             /\ tokenFile' = saveToken(tokenFile, tokenObj)
             /\ lastSaved' = tokenObj
             /\ savedPairs' = savedPairs \cup {<<tokenObj.shop, tokenObj.access_token>>}
             /\ Finish(h, <<IF h.ok THEN Response(200, "App installed and token saved")
                            ELSE Response(400, "Token exchange failed")>>, NoPlatform)
  /\ UNCHANGED <<server, env>>

\* `await tokenResp.json()` settles, and the handler runs to its end.
\* tokenJson: [kind |-> "reject" | "null" | "object", value |-> the object].
CallbackJsonSettled(h, tokenJson, now) ==
  /\ BagIn(h, handlers) /\ h.route = "callback" /\ h.pc = "json"
  /\ IF tokenJson.kind = "reject"
     THEN /\ Finish(h, <<Response(500, "Server error")>>, NoPlatform)
          /\ UNCHANGED <<dataDir, tokenFile, lastSaved, savedPairs>>
     ELSE IF ~h.ok
     THEN /\ Finish(h, <<Response(400, "Token exchange failed")>>, NoPlatform)
          /\ UNCHANGED <<dataDir, tokenFile, lastSaved, savedPairs>>
     ELSE IF tokenJson.kind = "null"
     THEN \* tokenJson.access_token on null throws a TypeError
          /\ Finish(h, <<Response(500, "Server error")>>, NoPlatform)
          /\ UNCHANGED <<dataDir, tokenFile, lastSaved, savedPairs>>
     ELSE LET tokenObj == TokenObj(h.query["shop"], tokenJson, now)
          IN /\ dataDir' = TRUE
             /\ tokenFile' = saveToken(tokenFile, tokenObj)
             /\ lastSaved' = tokenObj
             /\ savedPairs' = savedPairs \cup {<<tokenObj.shop, tokenObj.access_token>>}
             /\ Finish(h, <<Response(200, "App installed and token saved")>>, NoPlatform)
  /\ UNCHANGED <<server, env>>

\* ---- POST /proxy/customization-request (server.js) ------------------------
\* product?.title, product?.url, customer?.logged_in, customer?.email
ProductProp(body, key) == IF body.product = Undefined THEN Undefined ELSE body[key]
IsLoggedIn(body) == body.customer # Undefined /\ body.logged_in

\* Line 5 of noteLines.
CustomerLine(body) ==
  IF IsLoggedIn(body) THEN <<"Customer:", body.email>> ELSE <<"Customer: Guest (not logged in)">>

\* draftInput (lines 165-195).
DraftInput(body) ==
  [title |-> body.title, url |-> body.url, phone |-> body.phone,
   note |-> CustomerLine(body),
   email |-> IF IsLoggedIn(body) /\ ~Falsy(body.email) THEN body.email ELSE Undefined]

\* The call sent to the configured SHOP instead of the shop of the token.
GraphQLCall_EnvShop(tok, body) ==
  [shop |-> env.SHOP, token |-> TokProp(tok, "access_token"), input |-> DraftInput(body)]

\* The outbound GraphQL request of lines 206-213.
GraphQLCall(tok, body) ==
  [shop |-> TokProp(tok, "shop"), token |-> TokProp(tok, "access_token"),
   input |-> DraftInput(body)]

\* The checks without the token check.
ProxyChecks_NoTokenCheck(query, body, tok) ==
  LET v == IF env.VERIFY_PROXY = "true" THEN verifyAppProxy(query, env.API_SECRET) ELSE "true"
  IN IF v = "throw" THEN Response(500, "Server error")
     ELSE IF v = "false" THEN Response(401, "Invalid proxy signature")
     ELSE IF Falsy(body.phone) \/ Falsy(ProductProp(body, "title")) \/ Falsy(ProductProp(body, "url"))
     THEN Response(400, "Missing phone or product data")
     ELSE Response(0, "await fetch")

\* The checks with a body check that forgets product.url.
ProxyChecks_NoUrlCheck(query, body, tok) ==
  LET v == IF env.VERIFY_PROXY = "true" THEN verifyAppProxy(query, env.API_SECRET) ELSE "true"
  IN IF v = "throw" THEN Response(500, "Server error")
     ELSE IF v = "false" THEN Response(401, "Invalid proxy signature")
     ELSE IF Falsy(TokProp(tok, "access_token"))
     THEN Response(401, "App not installed / token missing. Visit /auth once.")
     ELSE IF Falsy(body.phone) \/ Falsy(ProductProp(body, "title"))
     THEN Response(400, "Missing phone or product data")
     ELSE Response(0, "await fetch")

\* The handler up to `await fetch(...)`: lines 149-163.
ProxyChecks(query, body, tok) ==
  LET v == IF env.VERIFY_PROXY = "true" THEN verifyAppProxy(query, env.API_SECRET) ELSE "true"
  IN IF v = "throw" THEN Response(500, "Server error")
     ELSE IF v = "false" THEN Response(401, "Invalid proxy signature")
     ELSE IF Falsy(TokProp(tok, "access_token"))
     THEN Response(401, "App not installed / token missing. Visit /auth once.")
     ELSE IF Falsy(body.phone) \/ Falsy(ProductProp(body, "title")) \/ Falsy(ProductProp(body, "url"))
     THEN Response(400, "Missing phone or product data")
     ELSE Response(0, "await fetch")

ProxyStart(query, body) ==
  /\ server = "server.js"
  /\ LET tok == loadToken(tokenFile)
         res == ProxyChecks(query, body, tok)
     IN IF res.status # 0
        THEN /\ lastDone' = Done("proxy", query, body, <<res>>, 0, <<>>, NoPlatform)
             /\ UNCHANGED handlers
        ELSE /\ InFlight < MaxHandlers
             /\ handlers' = handlers (+)
                  SetToBag({Suspended("proxy", "fetch", query, body, 0,
                                      <<GraphQLCall(tok, body)>>, FALSE)})
             /\ UNCHANGED lastDone
  /\ UNCHANGED <<server, env, dataDir, tokenFile, lastSaved, savedPairs>>

\* The handler sending the call a second time when the first one fails.
ProxyFetchSettled_Retry(h, outcome) ==
  /\ BagIn(h, handlers) /\ h.route = "proxy" /\ h.pc = "fetch"
  /\ IF outcome = "reject" /\ Len(h.calls) = 1
     THEN /\ handlers' = (handlers (-) SetToBag({h})) (+)
                 SetToBag({[h EXCEPT !.calls = h.calls \o h.calls]})
          /\ UNCHANGED lastDone
     ELSE IF outcome = "reject"
     THEN Finish(h, <<Response(500, "Server error")>>, NoPlatform)
     ELSE /\ handlers' = (handlers (-) SetToBag({h})) (+)
                 SetToBag({[h EXCEPT !.pc = "json", !.ok = (outcome = "ok")]})
          /\ UNCHANGED lastDone
  /\ UNCHANGED <<server, env, dataDir, tokenFile, lastSaved, savedPairs>>

\* `await fetch(...)` of the GraphQL call settles.
ProxyFetchSettled(h, outcome) ==
  /\ BagIn(h, handlers) /\ h.route = "proxy" /\ h.pc = "fetch"
  /\ IF outcome = "reject"
     THEN Finish(h, <<Response(500, "Server error")>>, NoPlatform)
     ELSE /\ handlers' = (handlers (-) SetToBag({h})) (+)
                 SetToBag({[h EXCEPT !.pc = "json", !.ok = (outcome = "ok")]})
          /\ UNCHANGED lastDone
  /\ UNCHANGED <<server, env, dataDir, tokenFile, lastSaved, savedPairs>>

\* json?.data?.draftOrderCreate: "undefined", "null" or "object".
DraftOrderCreateResult(json) ==
  IF json.json # "object" \/ json.data # "object" THEN Undefined ELSE json.draftOrderCreate

\* Lines 216-222: the answer built from the platform's JSON.
DraftOrderReply(json) ==
  LET result == DraftOrderCreateResult(json)
  IN IF result = "object" /\ Len(json.userErrors) > 0
     THEN <<Response(400, json.userErrors[1])>>
     ELSE <<OkResponse(IF result = "object" /\ ~Falsy(json.draftOrder)
                       THEN json.draftOrder ELSE Undefined)>>

\* `await resp.json()` settles, and the handler runs to its end.
\* json: [json |-> "reject" | "null" | "object", data, draftOrderCreate, ...].
ProxyJsonSettled(h, json) ==
  /\ BagIn(h, handlers) /\ h.route = "proxy" /\ h.pc = "json"
  /\ LET platform == [json EXCEPT !.ok = h.ok]
     IN IF json.json = "reject"
        THEN Finish(h, <<Response(500, "Server error")>>, platform)
        ELSE Finish(h, DraftOrderReply(json), platform)
  /\ UNCHANGED <<server, env, dataDir, tokenFile, lastSaved, savedPairs>>

\* ---- POST /proxy/customization-request (the ADMIN_TOKEN server) -----------
LegacyChecks(body) ==
  IF Falsy(env.SHOP) \/ Falsy(env.ADMIN_TOKEN)
  THEN Response(500, "Missing SHOP or ADMIN_TOKEN env vars")
  ELSE IF Falsy(body.phone) \/ Falsy(ProductProp(body, "title")) \/ Falsy(ProductProp(body, "url"))
  THEN Response(400, "Missing phone or product data")
  ELSE Response(0, "await fetch")

LegacyProxyStart(query, body) ==
  /\ server = "part_000"
  /\ LET res == LegacyChecks(body)
     IN IF res.status # 0
        THEN /\ lastDone' = Done("legacy", query, body, <<res>>, 0, <<>>, NoPlatform)
             /\ UNCHANGED handlers
        ELSE /\ InFlight < MaxHandlers
             /\ handlers' = handlers (+)
                  SetToBag({Suspended("legacy", "fetch", query, body, 0,
                      <<[shop |-> env.SHOP, token |-> env.ADMIN_TOKEN, input |-> DraftInput(body)]>>,
                      FALSE)})
             /\ UNCHANGED lastDone
  /\ UNCHANGED <<server, env, dataDir, tokenFile, lastSaved, savedPairs>>

LegacyFetchSettled(h, outcome) ==
  /\ BagIn(h, handlers) /\ h.route = "legacy" /\ h.pc = "fetch"
  /\ IF outcome = "reject"
     THEN Finish(h, <<Response(500, "Server error")>>, NoPlatform)
     ELSE /\ handlers' = (handlers (-) SetToBag({h})) (+)
                 SetToBag({[h EXCEPT !.pc = "json", !.ok = (outcome = "ok")]})
          /\ UNCHANGED lastDone
  /\ UNCHANGED <<server, env, dataDir, tokenFile, lastSaved, savedPairs>>

\* Lines 87-93 of the ADMIN_TOKEN server.
LegacyDraftOrderReply(json) ==
  LET result == DraftOrderCreateResult(json)
  IN IF result = "object" /\ Len(json.userErrors) > 0
     THEN <<Response(400, json.userErrors[1])>>
     ELSE <<OkResponse(IF result = "object" /\ ~Falsy(json.draftOrder)
                       THEN json.draftOrder ELSE Undefined)>>

LegacyJsonSettled(h, json) ==
  /\ BagIn(h, handlers) /\ h.route = "legacy" /\ h.pc = "json"
  /\ LET platform == [json EXCEPT !.ok = h.ok]
     IN IF json.json = "reject"
        THEN Finish(h, <<Response(500, "Server error")>>, platform)
        ELSE Finish(h, LegacyDraftOrderReply(json), platform)
  /\ UNCHANGED <<server, env, dataDir, tokenFile, lastSaved, savedPairs>>

\* ---- the environment: configurations, requests, platform answers ----------
EnvOf(shop, key, secret, host, verify, admin) ==
  [SHOP |-> shop, API_KEY |-> key, API_SECRET |-> secret, HOST |-> host,
   VERIFY_PROXY |-> verify, ADMIN_TOKEN |-> admin]

OAuthEnvs ==
  {EnvOf(shop, key, secret, host, verify, Undefined) :
     shop \in {Undefined, "s1"}, key \in {Undefined, "key"}, secret \in {Undefined, "secret"},
     host \in {Undefined, "host"}, verify \in {Undefined, "true"}}

LegacyEnvs ==
  {EnvOf(shop, Undefined, Undefined, Undefined, Undefined, admin) :
     shop \in {Undefined, "s1"}, admin \in {Undefined, "shpat"}}

\* Query objects: functions from the keys present to their values.
Obj1(k, v) == k :> v
RestQueries(shops, codes) ==
  {[k \in {x \in {"shop", "code"} :
             (x = "shop" /\ shop # Undefined) \/ (x = "code" /\ code # Undefined)} |->
       IF k = "shop" THEN shop ELSE code] : shop \in shops, code \in codes}

\* The message the platform signs for a callback, and its signature.
CallbackMessage(rest) ==
  LET sorted == SortKeys(DOMAIN rest)
  IN Join([i \in 1..Len(sorted) |-> KeyValue(rest, sorted[i])], <<"&">>)
ProxyMessage(rest) ==
  LET sorted == SortKeys(DOMAIN rest)
  IN Join([i \in 1..Len(sorted) |-> KeyValue(rest, sorted[i])], <<>>)

\* hmac values a client can send with `rest`: none, the platform's, one made
\* with another secret, a truncated one.
HmacKinds == {"absent", "valid", "forged", "short"}
WithHmac(rest, kind) ==
  LET valid == HmacSha256Hex("secret", CallbackMessage(rest))
  IN CASE kind = "absent" -> rest
       [] kind = "valid" -> rest @@ Obj1("hmac", valid)
       [] kind = "forged" -> rest @@ Obj1("hmac", HmacSha256Hex("other", CallbackMessage(rest)))
       [] kind = "short" -> rest @@ Obj1("hmac", SubSeq(valid, 1, 3))

WithSignature(rest, kind) ==
  CASE kind = "absent" -> rest
    [] kind = "valid" -> rest @@ Obj1("signature", HmacSha256Hex("secret", ProxyMessage(rest)))
    [] kind = "forged" -> rest @@ Obj1("signature", HmacSha256Hex("other", ProxyMessage(rest)))
    [] kind = "short" -> rest @@ Obj1("signature", <<1, 2, 3>>)

BodyOf(phone, product, title, url, customer, logged_in, email) ==
  [phone |-> phone, product |-> product, title |-> title, url |-> url,
   customer |-> customer, logged_in |-> logged_in, email |-> email]

Customers ==
  {[customer |-> Undefined, logged_in |-> FALSE, email |-> Undefined],
   [customer |-> "object", logged_in |-> FALSE, email |-> Undefined],
   [customer |-> "object", logged_in |-> TRUE, email |-> "e1"],
   [customer |-> "object", logged_in |-> TRUE, email |-> Undefined]}
Products ==
  {[product |-> Undefined, title |-> Undefined, url |-> Undefined],
   [product |-> "object", title |-> "T", url |-> Undefined],
   [product |-> "object", title |-> "", url |-> "U"],
   [product |-> "object", title |-> "T", url |-> "U"]}
Bodies(phones, products, customers) ==
  {BodyOf(ph, p.product, p.title, p.url, c.customer, c.logged_in, c.email) :
     ph \in phones, p \in products, c \in customers}

TokenJson(kind, value) == [kind |-> kind, value |-> value]
TokenJsons(tokens) ==
  {TokenJson("object", [access_token |-> t, scope |-> "sc"]) : t \in tokens}
  \cup {TokenJson("object", Obj1("error", "invalid_request")),
        TokenJson("null", EmptyObject), TokenJson("reject", EmptyObject)}

GraphQLJson(json, data, doc, draftOrder, userErrors) ==
  [ok |-> FALSE, json |-> json, data |-> data, draftOrderCreate |-> doc,
   draftOrder |-> draftOrder, userErrors |-> userErrors]
Created == GraphQLJson("object", "object", "object", "D1", <<>>)
UserErrors == GraphQLJson("object", "object", "object", Null, <<"m1", "m2">>)
NoDraftOrder == GraphQLJson("object", "object", "object", Null, <<>>)
NullResult == GraphQLJson("object", "object", Null, Undefined, <<>>)
NullData == GraphQLJson("object", Null, Undefined, Undefined, <<>>)
ErrorsOnly == GraphQLJson("object", Undefined, Undefined, Undefined, <<>>)
JsonNull == GraphQLJson("null", Undefined, Undefined, Undefined, <<>>)
NotJson == GraphQLJson("reject", Undefined, Undefined, Undefined, <<>>)

\* ---- the system ---------------------------------------------------------
Init ==
  /\ server \in {"server.js", "part_000"}
  /\ env \in (IF server = "server.js" THEN OAuthEnvs ELSE LegacyEnvs)
  /\ dataDir = FALSE
  /\ tokenFile = NoFile
  /\ handlers = EmptyBag
  /\ lastDone = NoRequest
  /\ lastSaved = NoTokenObj
  /\ savedPairs = {}

\* The steps that take a new request, over the requests of `u`.
Arrivals(u) ==
  \/ Root
  \/ \E query \in u.authQueries : Auth(query)
  \/ \E query \in u.callbackQueries : CallbackStart(query)
  \/ \E query \in u.proxyQueries, body \in u.bodies : ProxyStart(query, body)
  \/ \E query \in u.proxyQueries, body \in u.bodies : LegacyProxyStart(query, body)

\* The steps that resume a suspended handler, over the platform answers of `u`.
Settlements(u) ==
  \/ \E h \in BagToSet(handlers), outcome \in u.fetchOutcomes :
        CallbackFetchSettled(h, outcome)
  \/ \E h \in BagToSet(handlers), tokenJson \in u.tokenJsons, now \in u.times :
        CallbackJsonSettled(h, tokenJson, now)
  \/ \E h \in BagToSet(handlers), outcome \in u.fetchOutcomes :
        ProxyFetchSettled(h, outcome)
  \/ \E h \in BagToSet(handlers), json \in u.graphqlJsons : ProxyJsonSettled(h, json)
  \/ \E h \in BagToSet(handlers), outcome \in u.fetchOutcomes :
        LegacyFetchSettled(h, outcome)
  \/ \E h \in BagToSet(handlers), json \in u.graphqlJsons : LegacyJsonSettled(h, json)

\* Two shops installing concurrently with form submissions: few request
\* shapes, any interleaving of up to MaxHandlers suspended handlers.
Interleaved ==
  [authQueries |-> RestQueries({Undefined, "s2"}, {Undefined}),
   callbackQueries |-> {WithHmac(rest, kind) :
                          rest \in RestQueries({"s1", "s2"}, {"c1"}), kind \in {"valid"}}
                       \cup {WithHmac(rest, "forged") : rest \in RestQueries({"s1"}, {"c1"})},
   tokenJsons |-> {TokenJson("object", [access_token |-> t, scope |-> "sc"]) : t \in {"t1", "t2"}}
                  \cup {TokenJson("reject", EmptyObject)},
   proxyQueries |-> {WithSignature(rest, "absent") : rest \in RestQueries({"s1"}, {Undefined})},
   bodies |-> Bodies({Undefined, "p1"}, {p \in Products : p.url = "U" /\ p.title = "T"},
                     {c \in Customers : c.customer = Undefined}),
   fetchOutcomes |-> {"ok", "reject"},
   graphqlJsons |-> {Created, UserErrors, ErrorsOnly, NotJson},
   times |-> {"2025-01-01T00:00:00.000Z"}]

\* One request at a time, every request shape and every platform answer.
AllInputs ==
  [authQueries |-> RestQueries({Undefined, "s2"}, {Undefined}),
   callbackQueries |-> {WithHmac(rest, kind) :
                          rest \in RestQueries({Undefined, "s1"}, {Undefined, "c1"}),
                          kind \in HmacKinds},
   tokenJsons |-> TokenJsons({"t1"}),
   proxyQueries |-> {WithSignature(rest, kind) :
                       rest \in RestQueries({"s1"}, {Undefined}), kind \in {"absent", "valid", "forged"}},
   bodies |-> Bodies({Undefined, "", "p1"}, Products, Customers),
   fetchOutcomes |-> {"ok", "not ok", "reject"},
   graphqlJsons |-> {Created, UserErrors, NoDraftOrder, NullResult, NullData, ErrorsOnly,
                     JsonNull, NotJson},
   times |-> {"2025-01-01T00:00:00.000Z", "2025-01-02T00:00:00.000Z"}]

Next == Arrivals(Interleaved) \/ Settlements(Interleaved)

Spec == Init /\ [][Next]_vars

Idle == handlers = EmptyBag

NextInputs ==
  \/ Idle /\ Root
  \/ Idle /\ \E query \in AllInputs.authQueries : Auth(query)
  \/ Idle /\ \E query \in AllInputs.callbackQueries : CallbackStart(query)
  \/ Idle /\ \E query \in AllInputs.proxyQueries, body \in AllInputs.bodies : ProxyStart(query, body)
  \/ Idle /\ \E query \in AllInputs.proxyQueries, body \in AllInputs.bodies :
               LegacyProxyStart(query, body)
  \/ Settlements(AllInputs)

SpecInputs == Init /\ [][NextInputs]_vars

\* ---- what the claims speak about ------------------------------------------
ProxyRoutes == {"proxy", "legacy"}
Answer == lastDone.sent[1]
StoredToken == TokProp(loadToken(tokenFile), "access_token")
EnvComplete ==
  ~Falsy(env.API_SECRET) /\ ~Falsy(env.API_KEY) /\ ~Falsy(env.HOST) /\ ~Falsy(env.SHOP)
BodyInvalid(body) ==
  Falsy(body.phone) \/ body.product = Undefined \/ Falsy(body.title) \/ Falsy(body.url)
\* The query carries, under `key`, the platform's digest of its other parameters.
PlatformSigned(query, key, sep) ==
  /\ key \in DOMAIN query
  /\ env.API_SECRET = "secret"
  /\ LET rest == [k \in DOMAIN query \ {key} |-> query[k]]
         sorted == SortKeys(DOMAIN rest)
     IN query[key] = HmacSha256Hex("secret",
                       Join([i \in 1..Len(sorted) |-> KeyValue(rest, sorted[i])], sep))
ProxyCalls ==
  {h.calls[1] : h \in {x \in BagToSet(handlers) : x.route = "proxy"}}
  \cup (IF lastDone.route = "proxy" THEN {lastDone.calls[i] : i \in DOMAIN lastDone.calls} ELSE {})

\* C1: token.json holds no record or exactly one record built from shop,
\* access_token, scope and created_at (a field whose value is undefined is not
\* written); records never accumulate; loadToken returns null exactly while no
\* callback has saved, and otherwise the record of the most recent save.
C1_SingleRecord ==
  /\ tokenFile.exists <=> lastSaved # NoTokenObj
  /\ tokenFile.exists =>
       LET tok == loadToken(tokenFile)
       IN /\ ~tok.isNull
          /\ Len(tokenFile.json) = Cardinality(DOMAIN tok.obj)
          /\ {"shop", "created_at"} \subseteq DOMAIN tok.obj
          /\ DOMAIN tok.obj \subseteq {TokenKeys[i] : i \in DOMAIN TokenKeys}
          /\ \A i \in DOMAIN TokenKeys : TokProp(tok, TokenKeys[i]) = lastSaved[TokenKeys[i]]
  /\ ~tokenFile.exists => loadToken(tokenFile).isNull /\ savedPairs = {}
C1_Witness ==
  /\ Cardinality(savedPairs) = 2
  /\ tokenFile.exists
  /\ Falsy(StoredToken)
  /\ TokProp(loadToken(tokenFile), "created_at") = "2025-01-02T00:00:00.000Z"
  /\ lastDone.route = "proxy"

\* C2 as stated: once a callback has persisted a token, no later request
\* changes the persisted record.
C2_OneShot == [][tokenFile.exists => tokenFile' = tokenFile]_vars
\* C2 amended: once a token is persisted, the record changes only when a
\* further callback completes its token exchange and is answered 200; it is
\* then replaced whole by that callback's record.  No other request changes it.
C2_OnlyCallbackRewrites ==
  [][(tokenFile.exists /\ tokenFile' # tokenFile) =>
       /\ lastDone'.route = "callback"
       /\ lastDone'.sent[1].status = 200
       /\ lastDone'.exchanges = 1
       /\ tokenFile'.exists
       /\ TokProp(loadToken(tokenFile'), "shop") = lastDone'.query["shop"]
       /\ Len(tokenFile'.json) <= Len(TokenKeys)]_vars
C2_Witness ==
  /\ tokenFile.exists
  /\ Cardinality({p[1] : p \in savedPairs}) = 2
  /\ lastDone.route = "callback" /\ Answer.status = 200

\* C3 as stated (second half): a proxy request handled while the store holds
\* no record with a non-empty access_token is answered 401.
C3_Answered401 ==
  (lastDone.route = "proxy" /\ lastDone.calls = <<>> /\ Falsy(StoredToken))
    => Answer.status = 401
\* C3 amended: the draftOrderCreate call is issued only while the store holds a
\* record with a non-empty access_token, and carries that token; a request
\* handled without such a record makes no call and is answered 401, or 500
\* when VERIFY_PROXY is "true", a signature is sent and API_SECRET is unset
\* (the signature check throws before the token is looked at).
C3_NoTokenNoCall ==
  /\ [][\A h \in BagToSet(handlers') :
          (h.route = "proxy" /\ ~BagIn(h, handlers)  /\ h.pc = "fetch") =>
             /\ ~Falsy(StoredToken)
             /\ Len(h.calls) = 1
             /\ h.calls[1].token = StoredToken]_vars
  /\ []((lastDone.route = "proxy" /\ lastDone.calls = <<>> /\ Falsy(StoredToken)) =>
          /\ Len(lastDone.sent) = 1
          /\ IF env.VERIFY_PROXY = "true" /\ "signature" \in DOMAIN lastDone.query
                /\ Falsy(env.API_SECRET)
             THEN Answer.status = 500
             ELSE Answer.status = 401)
C3_Witness ==
  /\ lastDone.route = "proxy"
  /\ tokenFile.exists /\ Falsy(StoredToken)
  /\ Answer.status = 401
  /\ Answer.text = "App not installed / token missing. Visit /auth once."
  /\ ~BodyInvalid(lastDone.body)

\* C4 as stated: a proxy request whose body lacks a non-empty phone,
\* product.title or product.url is answered 400 "Missing phone or product
\* data" and makes no outbound call.
C4_Answered400 ==
  (lastDone.route \in ProxyRoutes /\ BodyInvalid(lastDone.body)) =>
     /\ Answer.status = 400
     /\ Answer.text = "Missing phone or product data"
     /\ lastDone.calls = <<>>
\* C4 amended: such a request makes no outbound call and leaves the token store
\* unchanged, whatever the customer field; it is answered 400 "Missing phone or
\* product data" when the checks that precede the body check pass, and by the
\* first failing earlier check otherwise.  server.js: 500 when the signature
\* check throws, 401 on a bad signature (VERIFY_PROXY "true"), 401 without a
\* stored non-empty access_token.  ADMIN_TOKEN server: 500 without SHOP or
\* ADMIN_TOKEN.
C4_InvalidBody ==
  /\ []((lastDone.route \in ProxyRoutes /\ BodyInvalid(lastDone.body)) =>
          /\ lastDone.calls = <<>>
          /\ Len(lastDone.sent) = 1
          /\ lastDone.route = "proxy" =>
               LET verify == env.VERIFY_PROXY = "true"
                   sent == "signature" \in DOMAIN lastDone.query
               IN Answer =
                    IF verify /\ sent /\ Falsy(env.API_SECRET)
                    THEN Response(500, "Server error")
                    ELSE IF verify /\ ~PlatformSigned(lastDone.query, "signature", <<>>)
                    THEN Response(401, "Invalid proxy signature")
                    ELSE IF Falsy(StoredToken)
                    THEN Response(401, "App not installed / token missing. Visit /auth once.")
                    ELSE Response(400, "Missing phone or product data")
          /\ lastDone.route = "legacy" =>
               Answer = IF Falsy(env.SHOP) \/ Falsy(env.ADMIN_TOKEN)
                        THEN Response(500, "Missing SHOP or ADMIN_TOKEN env vars")
                        ELSE Response(400, "Missing phone or product data"))
  /\ [][(lastDone' # lastDone /\ lastDone'.route \in ProxyRoutes) =>
          tokenFile' = tokenFile]_vars
C4_Witness ==
  /\ lastDone.route = "proxy"
  /\ BodyInvalid(lastDone.body)
  /\ lastDone.body.logged_in /\ lastDone.body.email = "e1"
  /\ Answer = Response(400, "Missing phone or product data")
  /\ tokenFile.exists

C6_WriteOnlyAfterExchange ==
  /\ [][tokenFile' # tokenFile =>
          /\ lastDone'.route = "callback"
          /\ lastDone'.sent[1].status = 200
          /\ lastDone'.exchanges = 1
          /\ \E h \in BagToSet(handlers) :
               h.route = "callback" /\ h.pc = "json" /\ h.ok /\ h.query = lastDone'.query]_vars
  /\ [][(lastDone' # lastDone /\ lastDone'.route = "callback"
           /\ lastDone'.sent[1].status # 200) => tokenFile' = tokenFile]_vars
  /\ [](\A h \in BagToSet(handlers) \cup (IF lastDone.route = "callback" THEN {lastDone} ELSE {}) :
          (h.route = "callback" /\ h.exchanges > 0) =>
             /\ EnvComplete
             /\ PlatformSigned(h.query, "hmac", <<"&">>)
             /\ ~Falsy(Prop(h.query, "shop")) /\ ~Falsy(Prop(h.query, "code")))
  /\ []((lastDone.route = "callback" /\ ~EnvComplete) =>
          Answer = Response(500, "Missing env vars for OAuth"))
  /\ []((lastDone.route = "callback" /\ EnvComplete /\ lastDone.exchanges = 0
           /\ PlatformSigned(lastDone.query, "hmac", <<"&">>)) =>
          Answer = Response(400, "Missing shop or code"))
C6_Witness ==
  /\ lastDone.route = "callback"
  /\ Answer = Response(400, "Token exchange failed")
  /\ tokenFile.exists /\ StoredToken = "t1"

\* C7: with the env vars set, a callback whose hmac is absent or is not the
\* HMAC-SHA256 of the sorted remaining parameters is answered 400 "HMAC
\* verification failed", whatever the length of the hmac value, and sends no
\* token exchange request.
C7_HmacRejected ==
  (lastDone.route = "callback" /\ EnvComplete
     /\ ~PlatformSigned(lastDone.query, "hmac", <<"&">>)) =>
       /\ Answer = Response(400, "HMAC verification failed")
       /\ lastDone.exchanges = 0

\* C8: the proxy answers 200 {ok: true} only when the platform's response
\* contains a created draft order; non-empty userErrors give 400 with the
\* first message; a response without draftOrderCreate data is not answered
\* 200 ok.
C8_OkOnlyWhenCreated ==
  (lastDone.route \in ProxyRoutes /\ Len(lastDone.calls) = 1) =>
     LET p == lastDone.platform
         hasResult == p.json = "object" /\ p.data = "object" /\ p.draftOrderCreate = "object"
     IN /\ (Answer.status = 200 /\ Answer.ok) => (hasResult /\ ~Falsy(p.draftOrder))
        /\ (hasResult /\ Len(p.userErrors) > 0) => Answer = Response(400, p.userErrors[1])
        /\ ~hasResult => ~(Answer.status = 200 /\ Answer.ok)

\* C9: under any interleaving of proxy and callback handlers, the shop and the
\* access token of every outbound GraphQL call were saved together by one
\* successful callback.
C9_CallFromOneRecord ==
  \A c \in ProxyCalls : <<c.shop, c.token>> \in savedPairs
C9_Witness ==
  \E h \in BagToSet(handlers) :
    /\ h.route = "proxy"
    /\ tokenFile.exists
    /\ h.calls[1].shop # TokProp(loadToken(tokenFile), "shop")
    /\ h.calls[1].token # StoredToken

====
